---------------------------- MODULE Spec2Model ----------------------------
(***************************************************************************)
(* Model of the escape-time compute engine of mandelbrot-rust:            *)
(*   src/src/mandelbrot/bounded.rs  the five BoundsChecker backends        *)
(*   src/src/mandelbrot/compute.rs  Compute::compute_set and its rows      *)
(*                                                                         *)
(* Numbers.  A float is held as the integer  v  that stands for the dyadic *)
(* rational  v / Unit.  Every float operation is the exact operation       *)
(* followed by rounding to the significand width of its type (RoundTo).    *)
(* The inputs are chosen so that the exact result of every operation is a  *)
(* multiple of 1/Unit (ExactViewport, integer pixel coordinates); on these *)
(* inputs the model computes what IEEE / MPFR arithmetic computes.         *)
(***************************************************************************)
EXTENDS Integers, Sequences, FiniteSets, TLC

(* ------------------------------ bounds --------------------------------- *)
FracBits == 2
MaxCoord == 2
MaxLimit == 3
FarLimit == 1000

Unit == 2 ^ FracBits

(* ------------------------- program constants --------------------------- *)
F32Bits == 24
F64Bits == 53
Radius4 == 4

Engines == {"Single", "Double", "SimdF32x8", "SimdF64x4", "Precision"}

(* ---------------------------- arithmetic ------------------------------- *)
Abs(v) == IF v < 0 THEN 0 - v ELSE v

RECURSIVE ShiftFor(_, _, _)
(* the least s with  m \div 2^s < 2^p *)
ShiftFor(m, p, s) == IF m \div (2 ^ s) < 2 ^ p THEN s ELSE ShiftFor(m, p, s + 1)

(* round v to p significant bits, ties to even: what storing a value in a *)
(* float of significand width p does.                                      *)
RoundTo(p, v) ==
  IF p >= 30 \/ Abs(v) < 2 ^ p THEN v
  ELSE LET m == Abs(v)
           s == ShiftFor(m, p, 1)
           q == m \div (2 ^ s)
           r == m % (2 ^ s)
           half == 2 ^ (s - 1)
           up == r > half \/ (r = half /\ q % 2 = 1)
           mag == (IF up THEN q + 1 ELSE q) * (2 ^ s)
       IN  IF v < 0 THEN 0 - mag ELSE mag

FAdd(p, a, b) == RoundTo(p, a + b)
FSub(p, a, b) == RoundTo(p, a - b)
FMul(p, a, b) == RoundTo(p, (a * b) \div Unit)
FDiv(p, a, b) == RoundTo(p, (a * Unit) \div b)
FromInt(p, n) == RoundTo(p, n * Unit)

(* whether the model's quotient / product is the exact one *)
ExactMul(a, b) == (a * b) % Unit = 0
ExactDiv(a, b) == b # 0 /\ (a * Unit) % b = 0

(* --------------------------- bounded.rs -------------------------------- *)
(* Bound: Bounded | Unbounded(u64) *)
Bounded == <<"Bounded">>
Unbounded(n) == <<"Unbounded", n>>
IsBound(b) == b = Bounded \/ (Len(b) = 2 /\ b[1] = "Unbounded" /\ b[2] \in Nat)

(* BoundsSettings.limit is a u64.  It is held as its two 32-bit halves,   *)
(* limit = hi32 * 2^32 + lo32, so that  `limit as u32`  (the low half) is  *)
(* what the code computes.  Counters of the model stay below 2^32.         *)
Limit(hi, lo) == [hi32 |-> hi, lo32 |-> lo]
(* faulty variant: the loop runs while the counter is at most the limit *)
LeLimit(n, limit) == limit.hi32 > 0 \/ n <= limit.lo32

LtLimit(n, limit) == limit.hi32 > 0 \/ n < limit.lo32
AsU32(limit) == limit.lo32

BoundsSettings(limit, precision) == [limit |-> limit, precision |-> precision]

(* mask().len(): the batch width of a backend *)
MaskLen(engine) ==
  CASE engine = "SimdF32x8" -> 8
    [] engine = "SimdF64x4" -> 4
    [] OTHER -> 1

(* A complex value (z.0, z.1).  Once a component's magnitude has passed    *)
(* FarLimit the value is held as FarZ: |z| > max(2, |c|) then, so every    *)
(* later iterate is larger still (or inf / NaN), and  |z|^2 < 4  is false  *)
(* for all of them.                                                        *)
Cx(re, im) == [re |-> re, im |-> im, far |-> FALSE]
FarZ == [re |-> 0, im |-> 0, far |-> TRUE]
Clamp(re, im) ==
  IF Abs(re) > FarLimit * Unit \/ Abs(im) > FarLimit * Unit THEN FarZ ELSE Cx(re, im)

(* z = (z.0 * z.0 - z.1 * z.1 + c.0, 2.0 * z.0 * z.1 + c.1) in floats of  *)
(* significand width p                                                     *)
FloatStep(p, z, c) ==
  IF z.far THEN FarZ
  ELSE Clamp(FAdd(p, FSub(p, FMul(p, z.re, z.re), FMul(p, z.im, z.im)), c.re),
             FAdd(p, FMul(p, FMul(p, 2 * Unit, z.re), z.im), c.im))

(* z.0 * z.0 + z.1 * z.1 < 4.0 *)
(* faulty variant: a point on the circle of radius 2 counts as inside *)
FloatInsideOrOn(p, z) ==
  ~z.far /\ FAdd(p, FMul(p, z.re, z.re), FMul(p, z.im, z.im)) <= Radius4 * Unit

FloatInside(p, z) ==
  ~z.far /\ FAdd(p, FMul(p, z.re, z.re), FMul(p, z.im, z.im)) < Radius4 * Unit

(* rug: z_temp = z^2 (each part rounded once), z = z_temp + c *)
ComplexStep(p, z, c) ==
  IF z.far THEN FarZ
  ELSE LET sre == RoundTo(p, ((z.re * z.re) - (z.im * z.im)) \div Unit)
           sim == RoundTo(p, (2 * z.re * z.im) \div Unit)
       IN  Clamp(FAdd(p, sre, c.re), FAdd(p, sim, c.im))

(* faulty variant: the norm is taken for |z|, compared with 4 *)
ComplexInsideAbs(p, z) ==
  ~z.far /\ RoundTo(p, ((z.re * z.re) + (z.im * z.im)) \div Unit) < Radius4 * Radius4 * Unit

(* rug: buffer = norm(z) = re^2 + im^2 rounded once; buffer.real() < 4 *)
ComplexInside(p, z) ==
  ~z.far /\ RoundTo(p, ((z.re * z.re) + (z.im * z.im)) \div Unit) < Radius4 * Unit

(* The state of one check_bounded call: phase is "loop" (at the loop      *)
(* head), "write" (a SIMD backend after its loop) or "done"; c, z, iter   *)
(* hold one entry per lane; i is the SIMD loop's own counter; body counts  *)
(* the executions of the loop body; out is the caller's slice.            *)
Zero == Cx(0, 0)

EnterPrimitive(xs, ys, out) ==
  [phase |-> "loop", c |-> <<Cx(xs[1], ys[1])>>, z |-> <<Zero>>,
   iter |-> <<0>>, i |-> 0, body |-> 0, out |-> out]

(* the scalar loop body once z has been updated: if |z|^2 < 4 { iter += 1 } *)
(* else { out[0] = Unbounded(iter); return }                               *)
(* faulty variant: the escaping iteration is counted too *)
ScalarBodyCountsEscape(st, z, inside) ==
  IF inside
  THEN [st EXCEPT !.z = <<z>>, !.iter = <<st.iter[1] + 1>>, !.body = st.body + 1]
  ELSE [st EXCEPT !.z = <<z>>, !.body = st.body + 1, !.phase = "done",
                  !.out = [st.out EXCEPT ![1] = Unbounded(st.iter[1] + 1)]]

ScalarBody(st, z, inside) ==
  IF inside
  THEN [st EXCEPT !.z = <<z>>, !.iter = <<st.iter[1] + 1>>, !.body = st.body + 1]
  ELSE [st EXCEPT !.z = <<z>>, !.body = st.body + 1, !.phase = "done",
                  !.out = [st.out EXCEPT ![1] = Unbounded(st.iter[1])]]

(* after the scalar loop: out[0] = Bounded *)
ScalarExit(st) == [st EXCEPT !.phase = "done", !.out = [st.out EXCEPT ![1] = Bounded]]

(* impl_boundscheck_primitive!($type): the significand width of the loop's *)
(* arithmetic. The body never names $type: x = x[0] and y = y[0] are f64,  *)
(* z = (0.0, 0.0) is inferred f64 from c, for f32 as for f64.              *)
PrimitiveBits(type) == F64Bits

PrimitiveBody(type, st, z) == ScalarBody(st, z, FloatInside(PrimitiveBits(type), z))

(* impl_boundscheck_primitive!: one pass through the while loop's head *)
PrimitiveNext(type, st, limit) ==
  IF LtLimit(st.iter[1], limit)
  THEN PrimitiveBody(type, st, FloatStep(PrimitiveBits(type), st.z[1], st.c[1]))
  ELSE ScalarExit(st)

EnterComplex(xs, ys, precision, out) ==
  [phase |-> "loop",
   c |-> <<Cx(RoundTo(precision, xs[1]), RoundTo(precision, ys[1]))>>,
   z |-> <<Zero>>, iter |-> <<0>>, i |-> 0, body |-> 0, out |-> out]

ComplexBody(st, z, precision) == ScalarBody(st, z, ComplexInside(precision, z))

(* BoundsChecker<Float> for Complex: one pass through the while loop's head *)
ComplexNext(st, limit, precision) ==
  IF LtLimit(st.iter[1], limit)
  THEN ComplexBody(st, ComplexStep(precision, st.z[1], st.c[1]), precision)
  ELSE ScalarExit(st)

(* t[..] = x[..] as fN, from_slice_aligned: lanes past the slice stay 0 *)
LoadLanes(p, k, xs, ys) ==
  [l \in 1..k |-> Cx(IF l <= Len(xs) THEN RoundTo(p, xs[l]) ELSE 0,
                     IF l <= Len(ys) THEN RoundTo(p, ys[l]) ELSE 0)]

EnterSimd(p, k, xs, ys, out) ==
  [phase |-> "loop", c |-> LoadLanes(p, k, xs, ys), z |-> [l \in 1..k |-> Zero],
   iter |-> [l \in 1..k |-> 0], i |-> 0, body |-> 0, out |-> out]

(* faulty variant: every lane's count is advanced, whatever its mask *)
SelectAll(mask, iter) == [l \in 1..Len(iter) |-> iter[l] + 1]

(* iter = mask.select(iter + splat(1), iter) *)
Select(mask, iter) ==
  [l \in 1..Len(iter) |-> IF mask[l] THEN iter[l] + 1 ELSE iter[l]]

(* faulty variant: the loop is left as soon as one lane has escaped *)
SimdMaskedAny(st, z, mask) ==
  IF \E l \in 1..Len(mask) : ~mask[l]
  THEN [st EXCEPT !.z = z, !.body = st.body + 1, !.phase = "write"]
  ELSE [st EXCEPT !.z = z, !.body = st.body + 1, !.i = st.i + 1,
                  !.iter = Select(mask, st.iter)]

(* if mask.none() { break }  iter = mask.select(..) *)
SimdMasked(st, z, mask) ==
  IF \A l \in 1..Len(mask) : ~mask[l]
  THEN [st EXCEPT !.z = z, !.body = st.body + 1, !.phase = "write"]
  ELSE [st EXCEPT !.z = z, !.body = st.body + 1, !.i = st.i + 1,
                  !.iter = Select(mask, st.iter)]

(* mask = (z.0 * z.0 + z.1 * z.1).lt(check) *)
SimdBody(p, st, z) == SimdMasked(st, z, [l \in 1..Len(z) |-> FloatInside(p, z[l])])

(* for _ in 0..limit { z = ..; mask = ..; if mask.none() break; iter = .. } *)
SimdLoop(p, k, st, limit) ==
  IF LtLimit(st.i, limit)
  THEN SimdBody(p, st, [l \in 1..k |-> FloatStep(p, st.z[l], st.c[l])])
  ELSE [st EXCEPT !.phase = "write"]

(* out.zip(checks): o = if n < limit as u32 { Unbounded(n as u64) } else ..  *)
F32x8Write(st, limit) ==
  [st EXCEPT !.phase = "done",
             !.out = [l \in 1..Len(st.out) |->
                        IF l > 8 THEN st.out[l]
                        ELSE IF st.iter[l] < AsU32(limit) THEN Unbounded(st.iter[l])
                        ELSE Bounded]]

(* out.zip(checks): o = if n < limit { Unbounded(n) } else { Bounded }      *)
F64x4Write(st, limit) ==
  [st EXCEPT !.phase = "done",
             !.out = [l \in 1..Len(st.out) |->
                        IF l > 4 THEN st.out[l]
                        ELSE IF LtLimit(st.iter[l], limit) THEN Unbounded(st.iter[l])
                        ELSE Bounded]]

F32x8Next(st, limit) ==
  IF st.phase = "loop" THEN SimdLoop(F32Bits, 8, st, limit) ELSE F32x8Write(st, limit)

F64x4Next(st, limit) ==
  IF st.phase = "loop" THEN SimdLoop(F64Bits, 4, st, limit) ELSE F64x4Write(st, limit)

(* T::check_bounded for the T that compute_set selects for `engine` *)
Enter(engine, xs, ys, bounds, out) ==
  CASE engine \in {"Single", "Double"} -> EnterPrimitive(xs, ys, out)
    [] engine = "Precision" -> EnterComplex(xs, ys, bounds.precision, out)
    [] engine = "SimdF32x8" -> EnterSimd(F32Bits, 8, xs, ys, out)
    [] engine = "SimdF64x4" -> EnterSimd(F64Bits, 4, xs, ys, out)

CheckerNext(engine, st, bounds) ==
  CASE engine \in {"Single", "Double"} -> PrimitiveNext(engine, st, bounds.limit)
    [] engine = "Precision" -> ComplexNext(st, bounds.limit, bounds.precision)
    [] engine = "SimdF32x8" -> F32x8Next(st, bounds.limit)
    [] engine = "SimdF64x4" -> F64x4Next(st, bounds.limit)

RECURSIVE RunChecker(_, _, _)
RunChecker(engine, st, bounds) ==
  IF st.phase = "done" THEN st ELSE RunChecker(engine, CheckerNext(engine, st, bounds), bounds)

(* the slice `out` after T::check_bounded(&xx, &yy, &settings.bounds, out) *)
CheckBounded(engine, xs, ys, bounds, out) ==
  RunChecker(engine, Enter(engine, xs, ys, bounds, out), bounds).out

(* --------------------------- compute.rs -------------------------------- *)
ComputeSettings(x, y, scale, width, height, engine, bounds) ==
  [x |-> x, y |-> y, scale |-> scale, width |-> width, height |-> height,
   engine |-> engine, bounds |-> bounds]

(* compute_set_with_engine: ratio, x_start, y_start and step, in f64 *)
(* faulty variant: the aspect ratio is the integer quotient width / height *)
ViewportIntegerRatio(settings) ==
  LET p == F64Bits
      ratio == FromInt(p, settings.width \div settings.height)
      scale == RoundTo(p, settings.scale)
  IN  [x_start |-> FSub(p, RoundTo(p, settings.x),
                        FDiv(p, FMul(p, scale, ratio), 2 * Unit)),
       y_start |-> FSub(p, RoundTo(p, settings.y), FDiv(p, scale, 2 * Unit)),
       step |-> FDiv(p, FMul(p, scale, ratio), FromInt(p, settings.width)),
       ratio |-> ratio]

Viewport(settings) ==
  LET p == F64Bits
      ratio == FDiv(p, FromInt(p, settings.width), FromInt(p, settings.height))
      scale == RoundTo(p, settings.scale)
  IN  [x_start |-> FSub(p, RoundTo(p, settings.x),
                        FDiv(p, FMul(p, scale, ratio), 2 * Unit)),
       y_start |-> FSub(p, RoundTo(p, settings.y), FDiv(p, scale, 2 * Unit)),
       step |-> FDiv(p, FMul(p, scale, ratio), FromInt(p, settings.width)),
       ratio |-> ratio]

(* compute_set_with_engine_hp: the same quantities as Floats of            *)
(* settings.bounds.precision bits                                          *)
ViewportHp(settings) ==
  LET p == settings.bounds.precision
      w == FromInt(p, settings.width)
      h == FromInt(p, settings.height)
      ratio == FDiv(p, w, h)
  IN  [x_start |-> FSub(p, settings.x, FDiv(p, FMul(p, settings.scale, ratio), 2 * Unit)),
       y_start |-> FSub(p, settings.y, FDiv(p, settings.scale, 2 * Unit)),
       step |-> FDiv(p, FMul(p, settings.scale, ratio), w),
       ratio |-> ratio]

(* faulty variant: every engine takes the arbitrary-precision path *)
IsHpAlways(settings) == settings.engine \in Engines

IsHp(settings) == settings.engine = "Precision"

ViewportOf(settings) == IF IsHp(settings) THEN ViewportHp(settings) ELSE Viewport(settings)

(* the significand width the viewport arithmetic of `settings` runs at *)
WidthOf(settings) == IF IsHp(settings) THEN settings.bounds.precision ELSE F64Bits

(* compute_row: xx[i] = start[0] + step * (x + i) as f64,                  *)
(*              yy = start[1] + step * y as f64                            *)
RowY(settings, vp, y) ==
  IF IsHp(settings)
  THEN LET p == settings.bounds.precision
       IN  FAdd(p, vp.y_start, RoundTo(p, vp.step * y))
  ELSE FAdd(F64Bits, vp.y_start, FMul(F64Bits, vp.step, FromInt(F64Bits, y)))

ColX(settings, vp, col) ==
  LET p == WidthOf(settings)
  IN  FAdd(p, vp.x_start, FMul(p, vp.step, FromInt(p, col)))

Pairs(xx, yy) == [i \in 1..Len(xx) |-> <<xx[i], yy[i]>>]

(* acc after the chunk at column x: check_bounded has written `chunk` to   *)
(* out[x..x + k]                                                            *)
(* faulty variant: every batch of a row is written to the head of the row *)
StoreChunkAtHead(acc, x, xx, yy, chunk) ==
  [acc EXCEPT !.out = chunk \o SubSeq(acc.out, Len(chunk) + 1, Len(acc.out)),
              !.coords = acc.coords \o Pairs(xx, yy),
              !.calls = Append(acc.calls, x)]

StoreChunk(acc, x, xx, yy, chunk) ==
  [acc EXCEPT !.out = SubSeq(acc.out, 1, x) \o chunk
                        \o SubSeq(acc.out, x + Len(chunk) + 1, Len(acc.out)),
              !.coords = acc.coords \o Pairs(xx, yy),
              !.calls = Append(acc.calls, x)]

CheckChunk(settings, acc, x, xx, yy) ==
  StoreChunk(acc, x, xx, yy,
             CheckBounded(settings.engine, xx, yy, settings.bounds,
                          SubSeq(acc.out, x + 1, x + Len(xx))))

(* faulty variant: the column loop steps by one instead of by step_by *)
RECURSIVE RowFromStepOne(_, _, _, _, _)
RowFromStepOne(settings, vp, y, x, acc) ==
  IF x >= settings.width THEN acc
  ELSE IF x + MaskLen(settings.engine) > Len(acc.out) THEN [acc EXCEPT !.panic = TRUE]
  ELSE RowFromStepOne(settings, vp, y, x + 1,
               CheckChunk(settings, acc, x,
                          [i \in 1..MaskLen(settings.engine) |->
                             ColX(settings, vp, x + (i - 1))],
                          [i \in 1..MaskLen(settings.engine) |-> RowY(settings, vp, y)]))

(* compute_row / compute_row_hp from column x on: the chunks              *)
(* (0..width).step_by(step_by), each handed to T::check_bounded with the   *)
(* slice out[x..x + step_by]; taking that slice panics when it passes the  *)
(* end of out.                                                             *)
RECURSIVE RowFrom(_, _, _, _, _)
RowFrom(settings, vp, y, x, acc) ==
  IF x >= settings.width THEN acc
  ELSE IF x + MaskLen(settings.engine) > Len(acc.out) THEN [acc EXCEPT !.panic = TRUE]
  ELSE RowFrom(settings, vp, y, x + MaskLen(settings.engine),
               CheckChunk(settings, acc, x,
                          [i \in 1..MaskLen(settings.engine) |->
                             ColX(settings, vp, x + (i - 1))],
                          [i \in 1..MaskLen(settings.engine) |-> RowY(settings, vp, y)]))

(* the row's result: [panic, out, coords, calls]; calls are the columns x  *)
(* of the check_bounded calls in order, coords are the (x, y) handed to    *)
(* check_bounded, one per column                                           *)
ComputeRow(settings, vp, y, out) ==
  RowFrom(settings, vp, y, 0, [panic |-> FALSE, out |-> out, coords |-> <<>>, calls |-> <<>>])

(* seq with `row` stored from offset `off` on, as far as seq reaches *)
Splice(seq, off, row) ==
  [j \in 1..Len(seq) |-> IF j > off /\ j <= off + Len(row) THEN row[j - off] ELSE seq[j]]

(* the sequential arm of compute_set as a function of the settings: rows  *)
(* 0..height in order, each computed on its slice of output               *)
SeqRowInto(s, acc, y, r) ==
  IF r.panic THEN [acc EXCEPT !.panic = TRUE]
  ELSE [acc EXCEPT !.out = Splice(acc.out, y * s.width, r.out)]

RECURSIVE SeqRows(_, _, _, _)
SeqRows(s, vp, y, acc) ==
  IF acc.panic \/ y >= s.height THEN acc
  ELSE SeqRows(s, vp, y + 1,
               SeqRowInto(s, acc, y,
                          ComputeRow(s, vp, y,
                                     SubSeq(acc.out, y * s.width + 1, (y + 1) * s.width))))

SequentialSet(s) ==
  SeqRows(s, ViewportOf(s), 0,
          [panic |-> FALSE, out |-> [j \in 1..(s.width * s.height) |-> Bounded]])

(* every quotient and product of the viewport mapping is exact at the     *)
(* resolution 1/Unit, and every pixel coordinate is an integer: the orbit  *)
(* arithmetic of such a viewport is exact too                              *)
ExactViewport(settings) ==
  LET p == WidthOf(settings)
      w == FromInt(p, settings.width)
      h == FromInt(p, settings.height)
      ratio == FDiv(p, w, h)
      sr == FMul(p, settings.scale, ratio)
      vp == ViewportOf(settings)
  IN  /\ ExactDiv(w, h)
      /\ ExactMul(settings.scale, ratio)
      /\ ExactDiv(sr, 2 * Unit)
      /\ ExactDiv(settings.scale, 2 * Unit)
      /\ ExactDiv(sr, w)
      /\ vp.x_start % Unit = 0
      /\ vp.y_start % Unit = 0
      /\ vp.step % Unit = 0

(* ------------------------------- state --------------------------------- *)
VARIABLES
  settings,   \* compute_set: the ComputeSettings of the call
  pool,       \* thread_pool: NoPool (sequential) or a pool of some threads
  message,    \* message: "None" or "Some" (a Sender<ComputeEvent>)
  rx_open,    \* whether the observer still holds the Receiver<ComputeEvent>
  pc,         \* where compute_set is
  idx,        \* the loop variable: y of the row / submit loop, n of the drain loop
  output,     \* the Vec<Bound> output
  tasks,      \* per row y: the state of the closure handed to the pool
  chan,       \* the (y, out) results in the channel (tx, rx)
  events,     \* everything sent on the progress channel, in order
  drained,    \* the row indices y received by rx.recv(), in order
  written,    \* the indices of output that a row has been stored to
  handed,     \* per output index: the coordinate handed to check_bounded
  call,       \* a single check_bounded call: its arguments
  st,         \* a single check_bounded call: its loop state
  state,      \* App::run: the AppState, and where the event closure is
  threads,    \* App::recompute: the threads spawned so far, in order
  results,    \* App::run: the ComputedSets in the channel (tx, rx)
  rows        \* the u32 row offsets of one row of a large grid

evars == <<settings, pool, message, rx_open, pc, idx, output, tasks, chan,
           events, drained, written, handed>>
cvars == <<call, st>>
avars == <<state, threads, results, rows>>
vars == <<settings, pool, message, rx_open, pc, idx, output, tasks, chan,
          events, drained, written, handed, call, st, state, threads, results,
          rows>>

(* ------------------------------- inputs -------------------------------- *)
MaxWidthLog == 3
MaxHeight == 2
PoolSize == 2
LowPrecision == 3

Precisions == {LowPrecision, F64Bits}
PrecisionsOf(e) == IF e = "Precision" THEN Precisions ELSE {F64Bits}
Widths == {2 ^ k : k \in 0..MaxWidthLog}
Centers == {0 - (Unit \div 2), 0, Unit \div 2}
Scales == {0, Unit, 2 * Unit}

SettingsSpace ==
  {ComputeSettings(x, y, scale, w, h, ep[1], BoundsSettings(Limit(0, l), ep[2])) :
     x \in Centers, y \in {0, Unit \div 2}, scale \in Scales,
     w \in Widths, h \in 1..MaxHeight,
     ep \in {<<e, prec>> \in Engines \X Precisions : prec \in PrecisionsOf(e)},
     l \in 0..MaxLimit}

NoCall == [engine |-> "none"]
Idle == [phase |-> "idle"]
NoSettings == [engine |-> "none"]
(* ----------------------- u32 row offsets ------------------------------- *)
(* a u32 as two halves of 16 bits: the value is hi16 * 2^16 + lo16         *)
HalfWord == 2^16
Byte == 2^8
U32(hi, lo) == [hi16 |-> hi, lo16 |-> lo]
ZeroU32 == U32(0, 0)
LessU32(a, b) == a.hi16 < b.hi16 \/ (a.hi16 = b.hi16 /\ a.lo16 < b.lo16)

(* y + 1 for a y below a u32 (y < settings.height): no carry out of the    *)
(* upper half                                                              *)
SuccU32(a) ==
  IF a.lo16 + 1 < HalfWord THEN U32(a.hi16, a.lo16 + 1) ELSE U32(a.hi16 + 1, 0)

(* a number below 2^64 as two u32: the value is high * 2^32 + low          *)
Wide(high, low) == [high |-> high, low |-> low]
AsUsize(a) == Wide(ZeroU32, a)
LessWide(a, b) == LessU32(a.high, b.high) \/ (a.high = b.high /\ LessU32(a.low, b.low))

(* p + q * 2^8 for p, q < 2^24, as a u32 *)
MulHalves(p, q) ==
  U32((q \div Byte) + ((p + (q % Byte) * Byte) \div HalfWord),
      (p + (q % Byte) * Byte) % HalfWord)

(* the product of two halves, which is below 2^32 *)
MulHalf(a, b) == MulHalves((a % Byte) * b, (a \div Byte) * b)

(* ll + (lh + hl) * 2^16 + hh * 2^32, the sums s1 and s2 of the two middle *)
(* columns with their carries                                              *)
WideOfColumns(ll, s1, s2, hh) ==
  Wide(U32(hh.hi16 + (s2 \div HalfWord), s2 % HalfWord), U32(s1 % HalfWord, ll.lo16))

WideSum(ll, lh, hl, hh) ==
  WideOfColumns(ll,
                ll.hi16 + lh.lo16 + hl.lo16,
                lh.hi16 + hl.hi16 + hh.lo16 + ((ll.hi16 + lh.lo16 + hl.lo16) \div HalfWord),
                hh)

(* the mathematical product of two u32 *)
WideMul(a, b) ==
  WideSum(MulHalf(a.lo16, b.lo16), MulHalf(a.lo16, b.hi16),
          MulHalf(a.hi16, b.lo16), MulHalf(a.hi16, b.hi16))

(* a * b on u32 operands, of the product w: a build with overflow checks   *)
(* panics when the product does not fit, a build without them keeps the    *)
(* low 32 bits                                                             *)
Narrowed(w, checks) == [panic |-> checks /\ w.high # ZeroU32, value |-> w.low]
MulU32(a, b, checks) == Narrowed(WideMul(a, b), checks)

NoRows == [at |-> "off"]
SmallHalf == 1

(* the halves the u32 inputs are made of, and the inputs *)
HalfSamples == (0..SmallHalf) \cup {HalfWord \div 2, HalfWord - 1}
U32Samples == {U32(hi, lo) : hi \in HalfSamples, lo \in HalfSamples}

NoApp == [at |-> "off"]
MaxLaunches == 3

(* thread_pool: None, or Some(pool) with the pool's number of threads *)
NoPool == [some |-> FALSE, threads |-> 0]
PoolOf(n) == [some |-> TRUE, threads |-> n]

Start == <<"Start">>
Progress(a, b) == <<"Progress", a, b>>
End == <<"End">>

(* a compute_set call on settings whose arithmetic is exact *)
InitEngine ==
  /\ settings \in {s \in SettingsSpace : ExactViewport(s)}
  /\ pool \in {NoPool} \cup {PoolOf(n) : n \in 1..PoolSize}
  /\ message \in {"None", "Some"}
  /\ rx_open = TRUE
  /\ pc = "start"
  /\ idx = 0
  /\ output = <<>>
  /\ tasks = <<>>
  /\ chan = <<>>
  /\ events = <<>>
  /\ drained = <<>>
  /\ written = {}
  /\ handed = <<>>
  /\ call = NoCall
  /\ st = Idle
  /\ state = NoApp
  /\ threads = <<>>
  /\ results = <<>>
  /\ rows = NoRows

CallSpace ==
  {[engine |-> ep[1],
    xs |-> [i \in 1..MaskLen(ep[1]) |-> (x0 + dx * (i - 1)) * Unit],
    ys |-> [i \in 1..MaskLen(ep[1]) |-> y0 * Unit],
    bounds |-> BoundsSettings(Limit(hi, l), ep[2]),
    out |-> [i \in 1..MaskLen(ep[1]) |-> fill]] :
     ep \in {<<e, prec>> \in Engines \X Precisions : prec \in PrecisionsOf(e)},
     x0 \in (0 - MaxCoord)..MaxCoord, y0 \in (0 - MaxCoord)..MaxCoord,
     dx \in {0, 1}, hi \in {0, 1}, l \in 0..MaxLimit,
     fill \in {Bounded, Unbounded(0)}}

(* a single check_bounded call, entered with arguments from CallSpace *)
InitChecker ==
  /\ call \in CallSpace
  /\ st = Enter(call.engine, call.xs, call.ys, call.bounds, call.out)
  /\ settings = NoSettings
  /\ pool = NoPool
  /\ message = "None"
  /\ rx_open = TRUE
  /\ pc = "off"
  /\ idx = 0
  /\ output = <<>>
  /\ tasks = <<>>
  /\ chan = <<>>
  /\ events = <<>>
  /\ drained = <<>>
  /\ written = {}
  /\ handed = <<>>
  /\ state = NoApp
  /\ threads = <<>>
  /\ results = <<>>
  /\ rows = NoRows

(* AppState::new, at the first call of the closure of event_loop.run: no   *)
(* ComputedSet computed yet (ComputedSet::empty is number 0; the set of    *)
(* the n-th recompute is number n), nothing valid, nothing busy            *)
AppStateNew ==
  [at |-> "event", computed_set |-> 0, dragging |-> FALSE, compute_valid |-> FALSE,
   compute_busy |-> FALSE, compute_start |-> "None", compute_time |-> "None",
   panicked |-> FALSE]

(* App::run, with no compute_set call and no check_bounded call modelled   *)
(* step by step                                                            *)
InitApp ==
  /\ state = AppStateNew
  /\ threads = <<>>
  /\ results = <<>>
  /\ rows = NoRows
  /\ call = NoCall
  /\ st = Idle
  /\ settings = NoSettings
  /\ pool = NoPool
  /\ message = "None"
  /\ rx_open = TRUE
  /\ pc = "off"
  /\ idx = 0
  /\ output = <<>>
  /\ tasks = <<>>
  /\ chan = <<>>
  /\ events = <<>>
  /\ drained = <<>>
  /\ written = {}
  /\ handed = <<>>

(* compute_set_with_engine on a grid of a positive u32 width and height,   *)
(* before the offsets of one of its rows are computed                      *)
InitRows ==
  /\ rows \in {[at |-> "entry", width |-> w, height |-> h] :
                 w \in U32Samples \ {ZeroU32}, h \in U32Samples \ {ZeroU32}}
  /\ state = NoApp
  /\ threads = <<>>
  /\ results = <<>>
  /\ call = NoCall
  /\ st = Idle
  /\ settings = NoSettings
  /\ pool = NoPool
  /\ message = "None"
  /\ rx_open = TRUE
  /\ pc = "off"
  /\ idx = 0
  /\ output = <<>>
  /\ tasks = <<>>
  /\ chan = <<>>
  /\ events = <<>>
  /\ drained = <<>>
  /\ written = {}
  /\ handed = <<>>

Init == InitEngine \/ InitChecker \/ InitApp \/ InitRows

(* ------------------------------ actions -------------------------------- *)
Width == settings.width
Height == settings.height

(* faulty variant: a channel of capacity one, whose send waits for room *)
ChannelOfOne == Len(events) < 1

(* message is a std::sync::mpsc::Sender, the sending half of an            *)
(* asynchronous channel: send never waits, however many events are unread; *)
(* events holds all of them, the observer reads at its own pace            *)
ChannelHasRoom == TRUE

(* faulty variant: the result of send is dropped instead of unwrapped *)
SendNeverFails == FALSE

(* faulty variant: only the send of Start is unwrapped *)
SendFailsAtStart == message = "Some" /\ ~rx_open /\ events = <<>>

(* sender.send(ev).unwrap() under `if let Some(sender) = &message`:       *)
(* nothing without a sender, a panic once the receiver is gone            *)
SendFails == message = "Some" /\ ~rx_open

(* faulty variant: the event is sent whether or not there is a sender *)
SentAlways(ev) == Append(events, ev)

Sent(ev) == IF message = "Some" THEN Append(events, ev) ELSE events

(* where row y starts in output: (y * settings.width) as usize *)
RowOffset(y) == y * Width

(* the indices of output that row y occupies when `len` elements are stored *)
RowIndices(y, len) ==
  {j \in 1..Len(output) : j > RowOffset(y) /\ j <= RowOffset(y) + len}

(* send Start, then vec![Bound::Bounded; width * height] *)
SendStart ==
  /\ pc = "start"
  /\ message = "Some" => ChannelHasRoom
  /\ IF SendFails
     THEN /\ pc' = "panicked"
          /\ UNCHANGED <<events, output, handed, tasks>>
     ELSE /\ events' = Sent(Start)
          /\ output' = [j \in 1..(Width * Height) |-> Bounded]
          /\ handed' = [j \in 1..(Width * Height) |-> <<>>]
          /\ tasks' = [y \in 0..(Height - 1) |-> "new"]
          /\ pc' = IF pool = NoPool THEN "row" ELSE "submit"
  /\ UNCHANGED <<settings, pool, message, rx_open, idx, chan, drained, written, call, st, avars>>

(* the sequential row loop after compute_row has run on the row's slice *)
SeqRowStore(r) ==
  IF r.panic
  THEN /\ pc' = "panicked"
       /\ UNCHANGED <<output, written, handed>>
  ELSE /\ pc' = "row_done"
       /\ output' = Splice(output, RowOffset(idx), r.out)
       /\ written' = written \cup RowIndices(idx, Len(r.out))
       /\ handed' = Splice(handed, RowOffset(idx), r.coords)

(* sequential: compute_row on the slice output[y*width .. (y+1)*width] *)
SeqRow ==
  /\ pc = "row"
  /\ idx < Height
  /\ SeqRowStore(ComputeRow(settings, ViewportOf(settings), idx,
                            SubSeq(output, RowOffset(idx) + 1, RowOffset(idx + 1))))
  /\ UNCHANGED <<settings, pool, message, rx_open, idx, tasks, chan, events, drained,
                 call, st, avars>>

(* faulty variant: the sequential loop reports the number of rows done, y + 1 *)
SeqProgressRowsDone ==
  /\ pc = "row_done"
  /\ message = "Some" => ChannelHasRoom
  /\ IF SendFails
     THEN /\ pc' = "panicked"
          /\ UNCHANGED <<events, idx>>
     ELSE /\ events' = Sent(Progress(idx + 1, Height))
          /\ idx' = idx + 1
          /\ pc' = "row"
  /\ UNCHANGED <<settings, pool, message, rx_open, output, tasks, chan, drained,
                 written, handed, call, st, avars>>

(* sequential: Progress((y, settings.height)) after the row *)
SeqProgress ==
  /\ pc = "row_done"
  /\ message = "Some" => ChannelHasRoom
  /\ IF SendFails
     THEN /\ pc' = "panicked"
          /\ UNCHANGED <<events, idx>>
     ELSE /\ events' = Sent(Progress(idx, Height))
          /\ idx' = idx + 1
          /\ pc' = "row"
  /\ UNCHANGED <<settings, pool, message, rx_open, output, tasks, chan, drained,
                 written, handed, call, st, avars>>

(* sequential: the row loop is over *)
SeqDone ==
  /\ pc = "row"
  /\ idx = Height
  /\ pc' = "end"
  /\ UNCHANGED <<settings, pool, message, rx_open, idx, output, tasks, chan, events,
                 drained, written, handed, call, st, avars>>

(* parallel: thread_pool.execute(closure for row y) *)
Submit ==
  /\ pc = "submit"
  /\ idx < Height
  /\ tasks' = [tasks EXCEPT ![idx] = "queued"]
  /\ idx' = idx + 1
  /\ UNCHANGED <<settings, pool, message, rx_open, pc, output, chan, events, drained,
                 written, handed, call, st, avars>>

(* parallel: all rows are submitted; the drain loop starts with n = 0 *)
SubmitDone ==
  /\ pc = "submit"
  /\ idx = Height
  /\ pc' = "drain"
  /\ idx' = 0
  /\ UNCHANGED <<settings, pool, message, rx_open, output, tasks, chan, events,
                 drained, written, handed, call, st, avars>>

Running == {y \in DOMAIN tasks : tasks[y] = "running"}

(* a pool thread takes the oldest queued closure *)
TaskStart(y) ==
  /\ pc # "off"
  /\ y \in DOMAIN tasks
  /\ tasks[y] = "queued"
  /\ \A y2 \in DOMAIN tasks : y2 < y => tasks[y2] # "queued"
  /\ Cardinality(Running) < pool.threads
  /\ tasks' = [tasks EXCEPT ![y] = "running"]
  /\ UNCHANGED <<settings, pool, message, rx_open, pc, idx, output, chan, events,
                 drained, written, handed, call, st, avars>>

(* faulty variant: the closure sends its result twice *)
TaskSendTwice(y, r) ==
  IF r.panic \/ pc = "panicked"
  THEN /\ tasks' = [tasks EXCEPT ![y] = "panicked"]
       /\ UNCHANGED <<chan, handed>>
  ELSE /\ tasks' = [tasks EXCEPT ![y] = "done"]
       /\ chan' = chan \o <<(<<y, r.out>>), (<<y, r.out>>)>>
       /\ handed' = Splice(handed, RowOffset(y), r.coords)

(* the end of the closure: tx.send((y, out)).unwrap(), which fails once    *)
(* compute_set has unwound and dropped rx                                   *)
TaskSend(y, r) ==
  IF r.panic \/ pc = "panicked"
  THEN /\ tasks' = [tasks EXCEPT ![y] = "panicked"]
       /\ UNCHANGED <<chan, handed>>
  ELSE /\ tasks' = [tasks EXCEPT ![y] = "done"]
       /\ chan' = Append(chan, <<y, r.out>>)
       /\ handed' = Splice(handed, RowOffset(y), r.coords)

(* faulty variant: the closure computes its row in place, on the grid *)
TaskRunOnGrid(y) ==
  /\ pc # "off"
  /\ y \in DOMAIN tasks
  /\ tasks[y] = "running"
  /\ TaskSend(y, ComputeRow(settings, ViewportOf(settings), y,
                            [j \in 1..Width |-> Bounded]))
  /\ output' = IF tasks'[y] = "done"
                THEN Splice(output, RowOffset(y), chan'[Len(chan')][2])
                ELSE output
  /\ UNCHANGED <<settings, pool, message, rx_open, pc, idx, events, drained,
                 written, call, st, avars>>

(* the closure: out = vec![Bounded; width]; compute_row(y, .., &mut out) *)
TaskRun(y) ==
  /\ pc # "off"
  /\ y \in DOMAIN tasks
  /\ tasks[y] = "running"
  /\ TaskSend(y, ComputeRow(settings, ViewportOf(settings), y,
                            [j \in 1..Width |-> Bounded]))
  /\ UNCHANGED <<settings, pool, message, rx_open, pc, idx, output, events, drained,
                 written, call, st, avars>>

(* faulty variant: the row is stored at the drain loop's n instead of at its y *)
PlaceAtDrainCount(y, row) == Splice(output, RowOffset(idx), row)

(* row.iter().zip(output.iter_mut().skip(y * width)): *output = *input *)
Place(y, row) == Splice(output, RowOffset(y), row)

(* parallel: (y, row) = rx.recv().unwrap(), copied into output.  recv     *)
(* blocks while the channel is empty: compute_set holds tx itself, so the  *)
(* channel never disconnects.                                              *)
DrainRecv ==
  /\ pc = "drain"
  /\ idx < Height
  /\ chan # <<>>
  /\ output' = Place(Head(chan)[1], Head(chan)[2])
  /\ written' = written \cup RowIndices(Head(chan)[1], Len(Head(chan)[2]))
  /\ drained' = Append(drained, Head(chan)[1])
  /\ chan' = Tail(chan)
  /\ pc' = "recv_done"
  /\ UNCHANGED <<settings, pool, message, rx_open, idx, tasks, events, handed, call, st, avars>>

(* faulty variant: the drain loop reports n + 1 *)
DrainIndexOffByOne == idx + 1

(* faulty variant: the drain loop reports the row index y it has just received *)
DrainIndexRow == drained[Len(drained)]

(* the index that the drain loop reports: n of `for n in 0..height` *)
DrainIndex == idx

(* parallel: Progress((n, settings.height)) after the copy *)
DrainProgress ==
  /\ pc = "recv_done"
  /\ message = "Some" => ChannelHasRoom
  /\ IF SendFails
     THEN /\ pc' = "panicked"
          /\ UNCHANGED <<events, idx>>
     ELSE /\ events' = Sent(Progress(DrainIndex, Height))
          /\ idx' = idx + 1
          /\ pc' = "drain"
  /\ UNCHANGED <<settings, pool, message, rx_open, output, tasks, chan, drained,
                 written, handed, call, st, avars>>

(* faulty variant: the drain loop ends one result short *)
DrainDoneOneShort ==
  /\ pc = "drain"
  /\ idx = Height - 1
  /\ pc' = "end"
  /\ UNCHANGED <<settings, pool, message, rx_open, idx, output, tasks, chan, events,
                 drained, written, handed, call, st, avars>>

(* parallel: `height` results are drained *)
DrainDone ==
  /\ pc = "drain"
  /\ idx = Height
  /\ pc' = "end"
  /\ UNCHANGED <<settings, pool, message, rx_open, idx, output, tasks, chan, events,
                 drained, written, handed, call, st, avars>>

(* send End, then ComputedSet::new(width, height, output) *)
SendEnd ==
  /\ pc = "end"
  /\ message = "Some" => ChannelHasRoom
  /\ IF SendFails
     THEN /\ pc' = "panicked"
          /\ UNCHANGED events
     ELSE /\ events' = Sent(End)
          /\ pc' = "returned"
  /\ UNCHANGED <<settings, pool, message, rx_open, idx, output, tasks, chan, drained,
                 written, handed, call, st, avars>>

(* the observer drops its Receiver<ComputeEvent> *)
ObserverDrop ==
  /\ message = "Some"
  /\ rx_open
  /\ pc \notin {"off", "returned", "panicked"}
  /\ rx_open' = FALSE
  /\ UNCHANGED <<settings, pool, message, pc, idx, output, tasks, chan, events,
                 drained, written, handed, call, st, avars>>

(* one step of the check_bounded call: a pass through its loop head, or   *)
(* the write after a SIMD loop.  A loop whose limit is 2^32 or more is    *)
(* followed for MaxLimit + 1 bodies only.                                 *)
CheckerStep ==
  /\ pc = "off"
  /\ st.phase \in {"loop", "write"}
  /\ st.body <= MaxLimit
  /\ st' = CheckerNext(call.engine, st, call.bounds)
  /\ UNCHANGED <<evars, call, avars>>

(* ------------------------------- app.rs -------------------------------- *)
(* The window events that the closure of event_loop.run tells apart, with  *)
(* what the frame's UI reports for its two buttons on a redraw.            *)
UiEvents ==
  {[kind |-> k, render |-> FALSE, reset |-> FALSE] :
     k \in {"Pressed", "Released", "MouseWheel", "Other"}}
    \cup {[kind |-> "RedrawRequested", render |-> r, reset |-> t] :
            r \in BOOLEAN, t \in BOOLEAN}

(* MouseInput Pressed: if !state.compute_busy { dragging = true } *)
OnPressed(s, capture) ==
  IF ~capture /\ ~s.compute_busy THEN [s EXCEPT !.dragging = TRUE] ELSE s

(* MouseInput Released: if !state.compute_busy && state.dragging { ..      *)
(* dragging = false; zoom; compute_valid = false }                         *)
OnReleased(s, capture) ==
  IF ~capture /\ ~s.compute_busy /\ s.dragging
  THEN [s EXCEPT !.dragging = FALSE, !.compute_valid = FALSE]
  ELSE s

(* faulty variant: the wheel zooms and invalidates whether busy or not *)
OnMouseWheelAlways(s) == [s EXCEPT !.compute_valid = FALSE]

(* MouseWheel: if !state.compute_busy { zoom; compute_valid = false } *)
OnMouseWheel(s) == IF ~s.compute_busy THEN [s EXCEPT !.compute_valid = FALSE] ELSE s

(* build_ui: if ui.button("Render") && !state.compute_busy { compute_valid  *)
(* = false }; the same for "Reset", which also resets the zoom             *)
OnRedraw(s, render, reset) ==
  IF (render \/ reset) /\ ~s.compute_busy THEN [s EXCEPT !.compute_valid = FALSE] ELSE s

(* match event { .. } *)
Handle(s, e, capture) ==
  CASE e.kind = "Pressed" -> OnPressed(s, capture)
    [] e.kind = "Released" -> OnReleased(s, capture)
    [] e.kind = "MouseWheel" -> OnMouseWheel(s)
    [] e.kind = "RedrawRequested" -> OnRedraw(s, e.render, e.reset)
    [] OTHER -> s

(* faulty variant: the start instant is not taken at the launch *)
LaunchedNoStart(s) ==
  [s EXCEPT !.compute_valid = TRUE, !.compute_busy = TRUE, !.compute_time = "None"]

(* after App::recompute: compute_valid = true; compute_busy = true;        *)
(* compute_start = Some(Instant::now()); compute_time = None               *)
Launched(s) ==
  [s EXCEPT !.compute_valid = TRUE, !.compute_busy = TRUE,
            !.compute_start = "Some", !.compute_time = "None"]

(* if !state.compute_valid { App::recompute(..); .. }: recompute spawns a  *)
(* thread that runs compute_set and sends its ComputedSet                  *)
AfterEvent(s) ==
  IF ~s.compute_valid
  THEN /\ Len(threads) < MaxLaunches
       /\ threads' = Append(threads, "running")
       /\ state' = [Launched(s) EXCEPT !.at = "recv"]
  ELSE /\ threads' = threads
       /\ state' = [s EXCEPT !.at = "recv"]

(* one call of the closure up to rx.try_recv(): the event is handled, then *)
(* a computation is launched if none is valid                              *)
AppEvent(e, capture) ==
  /\ state.at = "event"
  /\ AfterEvent(Handle(state, e, capture))
  /\ UNCHANGED <<evars, cvars, results, rows>>

(* if let Ok(result) = rx.try_recv() { computed_set = result; compute_busy *)
(* = false; compute_time = Some(compute_start.unwrap().elapsed());         *)
(* compute_start = None }: the unwrap panics on None                       *)
Received(s, n) ==
  IF s.compute_start = "None"
  THEN [s EXCEPT !.at = "panicked", !.panicked = TRUE, !.computed_set = n,
                 !.compute_busy = FALSE]
  ELSE [s EXCEPT !.at = "event", !.computed_set = n, !.compute_busy = FALSE,
                 !.compute_time = "Some", !.compute_start = "None"]

(* the rest of the closure: rx.try_recv(), which takes a result if there   *)
(* is one and goes on if there is none                                     *)
AppRecv ==
  /\ state.at = "recv"
  /\ IF results = <<>>
     THEN /\ state' = [state EXCEPT !.at = "event"]
          /\ UNCHANGED <<threads, results>>
     ELSE /\ state' = Received(state, Head(results))
          /\ results' = Tail(results)
          /\ threads' = [threads EXCEPT ![Head(results)] = "received"]
  /\ UNCHANGED <<evars, cvars, rows>>

(* the spawned thread: tx.send(Compute::compute_set(..)).unwrap() *)
ThreadSend(n) ==
  /\ state.at # "off"
  /\ n \in DOMAIN threads
  /\ threads[n] = "running"
  /\ threads' = [threads EXCEPT ![n] = "sent"]
  /\ results' = Append(results, n)
  /\ UNCHANGED <<evars, cvars, state, rows>>

(* the spawned thread ends without sending: compute_set has panicked *)
ThreadFail(n) ==
  /\ state.at # "off"
  /\ n \in DOMAIN threads
  /\ threads[n] = "running"
  /\ threads' = [threads EXCEPT ![n] = "failed"]
  /\ UNCHANGED <<evars, cvars, state, results, rows>>

(* the slice  output[(y * width) as usize..((y + 1) * width) as usize]  of *)
(* a grid of len elements, from the two products a and b: a panic of a     *)
(* product, or of the slice when its start is past its end or its end past *)
(* the grid, or the range taken                                            *)
SliceOf(r, y, a, b, len) ==
  IF \/ a.panic
     \/ b.panic
     \/ LessU32(b.value, a.value)
     \/ LessWide(len, AsUsize(b.value))
  THEN [at |-> "panicked", width |-> r.width, height |-> r.height, y |-> y]
  ELSE [at |-> "sliced", width |-> r.width, height |-> r.height, y |-> y,
        start |-> a.value, end |-> b.value]

(* the sequential arm on row y: the row buffer is cut out of the grid *)
SeqSlice(y, checks) ==
  /\ rows.at = "entry"
  /\ LessU32(y, rows.height)
  /\ rows' = SliceOf(rows, y, MulU32(y, rows.width, checks),
                     MulU32(SuccU32(y), rows.width, checks),
                     WideMul(rows.width, rows.height))
  /\ UNCHANGED <<evars, cvars, state, threads, results>>

(* output.iter_mut().skip((y * width) as usize): the row is copied to the  *)
(* grid from the offset a on                                               *)
SkipOf(r, y, a) ==
  IF a.panic
  THEN [at |-> "panicked", width |-> r.width, height |-> r.height, y |-> y]
  ELSE [at |-> "placed", width |-> r.width, height |-> r.height, y |-> y,
        start |-> a.value]

(* the parallel arm on the received row y *)
ParSkip(y, checks) ==
  /\ rows.at = "entry"
  /\ LessU32(y, rows.height)
  /\ rows' = SkipOf(rows, y, MulU32(y, rows.width, checks))
  /\ UNCHANGED <<evars, cvars, state, threads, results>>

Next ==
  \/ SendStart
  \/ SeqRow
  \/ SeqProgress
  \/ SeqDone
  \/ Submit
  \/ SubmitDone
  \/ \E y \in 0..(MaxHeight - 1) : TaskStart(y)
  \/ \E y \in 0..(MaxHeight - 1) : TaskRun(y)
  \/ DrainRecv
  \/ DrainProgress
  \/ DrainDone
  \/ SendEnd
  \/ ObserverDrop
  \/ CheckerStep
  \/ \E e \in UiEvents, capture \in BOOLEAN : AppEvent(e, capture)
  \/ AppRecv
  \/ \E n \in 1..MaxLaunches : ThreadSend(n)
  \/ \E n \in 1..MaxLaunches : ThreadFail(n)
  \/ \E y \in U32Samples, checks \in BOOLEAN : SeqSlice(y, checks)
  \/ \E y \in U32Samples, checks \in BOOLEAN : ParSkip(y, checks)

Spec == Init /\ [][Next]_vars

PcValues ==
  {"start", "row", "row_done", "submit", "drain", "recv_done", "end", "returned",
   "panicked"}
TaskStates == {"new", "queued", "running", "done", "panicked"}

(* whether the thread that runs compute_set has a step: it has one until   *)
(* it returns or panics, except in rx.recv() on an empty channel and in a  *)
(* send that waits for room                                                *)
MainCanStep ==
  /\ pc \in PcValues \ {"returned", "panicked"}
  /\ pc = "drain" /\ idx < Height => chan # <<>>
  /\ pc \in {"start", "row_done", "recv_done", "end"} /\ message = "Some" => ChannelHasRoom

(* whether a pool thread has a step: a closure is running, or one is       *)
(* queued and a thread is free                                             *)
PoolCanStep ==
  /\ pc # "off"
  /\ \E y \in DOMAIN tasks :
       \/ tasks[y] = "running"
       \/ tasks[y] = "queued" /\ Cardinality(Running) < pool.threads

(* the steps of compute_set are the steps that change pc or idx, those of  *)
(* the pool's threads are the steps that change tasks and leave pc and idx *)
MainProgress == MainCanStep /\ pc' \in PcValues /\ idx' \in 0..MaxHeight
PoolProgress ==
  PoolCanStep /\ pc' = pc /\ idx' = idx /\ tasks' \in [DOMAIN tasks -> TaskStates]

(* the order of the steps of a call depends on its settings through       *)
(* width, height and engine only: the scheduling is examined on the calls  *)
(* of one viewport and one limit, with every width, height, engine, pool   *)
(* and observer                                                            *)
FairInit ==
  /\ Init
  /\ pc # "off" =>
       /\ settings.x = 0 /\ settings.y = 0 /\ settings.scale = 2 * Unit
       /\ settings.bounds.limit = Limit(0, MaxLimit)

(* the same steps with threads that are scheduled fairly: the thread of    *)
(* compute_set goes on while it has a step, and so do the pool's threads   *)
FairSpec ==
  /\ FairInit
  /\ [][Next]_vars
  /\ WF_<<pc, idx>>(MainProgress)
  /\ WF_tasks(PoolProgress)

(* ------------------------------- claims -------------------------------- *)
Returned == pc = "returned"
Parallel == pc # "off" /\ pool.some
Observed == pc # "off" /\ message = "Some"

(* C1: whatever order the row tasks complete in, the grid that compute_set *)
(* returns with a thread pool is, element by element, the grid that the    *)
(* sequential arm produces on the same settings (and so is the grid of a   *)
(* call without a pool).                                                   *)
C1_ParallelEqualsSequential ==
  Returned => /\ ~SequentialSet(settings).panic
              /\ output = SequentialSet(settings).out

(* C1 witness: a parallel call has returned after row 1 was received       *)
(* before row 0, and the two rows differ                                   *)
C1_Witness ==
  /\ Returned /\ Parallel
  /\ Len(drained) = 2 /\ drained[1] > drained[2]
  /\ SubSeq(output, 1, Width) # SubSeq(output, Width + 1, 2 * Width)

IsProgress(ev) == Len(ev) = 3 /\ ev[1] = "Progress"

(* C2: with an observer, the events sent are one Start, then Progress      *)
(* events whose second component is height, then one End: nothing before   *)
(* Start, nothing after End; and a call that has returned has sent exactly *)
(* height Progress events whose first components are a permutation of      *)
(* 0..height.                                                              *)
C2_EventStream ==
  Observed =>
    /\ \A i \in 1..Len(events) :
         /\ (events[i] = Start <=> i = 1)
         /\ (events[i] = End => i = Len(events) /\ Returned)
         /\ (i > 1 /\ events[i] # End => IsProgress(events[i]) /\ events[i][3] = Height)
    /\ Returned =>
         /\ Len(events) = Height + 2
         /\ events[Len(events)] = End
         /\ {events[i][2] : i \in 2..(Height + 1)} = 0..(Height - 1)

(* C2 witness: a parallel call with an observer has returned, two rows *)
C2_Witness == Returned /\ Parallel /\ Observed /\ Height = 2 /\ Len(events) = 4

(* C3: when a row task has panicked before sending its result, compute_set *)
(* is not left blocked in rx.recv(): never is the drain loop waiting on an *)
(* empty channel with every task finished and one of them panicked.        *)
C3_FailurePropagates ==
  ~(/\ Parallel
    /\ pc = "drain" /\ idx < Height /\ chan = <<>>
    /\ \A y \in DOMAIN tasks : tasks[y] \in {"done", "panicked"}
    /\ \E y \in DOMAIN tasks : tasks[y] = "panicked")

(* C4 as stated: in parallel mode each Progress event carries the row      *)
(* index y of the result just received.                                    *)
C4_ProgressCarriesRowIndex ==
  Parallel /\ Observed =>
    \A i \in 1..Len(drained) :
      i + 1 <= Len(events) /\ IsProgress(events[i + 1]) => events[i + 1][2] = drained[i]

(* C4 amended: in parallel mode the first component of the k-th Progress   *)
(* event is k - 1, the drain loop's counter n: the Progress indices are    *)
(* 0, 1, .., in numeric order, whatever order the rows are received in.    *)
C4_ProgressCountsResults ==
  Parallel /\ Observed =>
    \A i \in 2..Len(events) : IsProgress(events[i]) => events[i][2] = i - 2

(* C4 witness: row 1 was received first and both Progress events are sent *)
C4_Witness ==
  /\ Parallel /\ Observed
  /\ drained = <<1, 0>>
  /\ Len(events) >= 3 /\ IsProgress(events[3])

(* the orbit of the definition, in exact integer arithmetic: the least     *)
(* index m in n..max with |z_m|^2 >= 4, where z is z_n; 0 when there is    *)
(* none (z_0 = 0 is never such an index)                                   *)
RECURSIVE EscapeFrom(_, _, _, _, _, _)
EscapeFrom(cre, cim, zre, zim, n, max) ==
  IF n > max THEN 0
  ELSE IF (zre * zre) + (zim * zim) >= Radius4 * Unit * Unit THEN n
  ELSE EscapeFrom(cre, cim,
                  (((zre * zre) - (zim * zim)) \div Unit) + cre,
                  ((2 * zre * zim) \div Unit) + cim,
                  n + 1, max)

EscapeIndex(cre, cim, max) == EscapeFrom(cre, cim, cre, cim, 1, max)

(* the number of iterates z_1, z_2, .. that a call with this limit looks at *)
Horizon(limit) == IF limit.hi32 > 0 THEN MaxLimit + 1 ELSE limit.lo32

CheckerDone == pc = "off" /\ st.phase = "done"
Lanes == 1..Len(call.xs)
LaneEscape(l) == EscapeIndex(call.xs[l], call.ys[l], Horizon(call.bounds.limit))

(* C5 as stated: check_bounded returns Unbounded(n) for the first index n  *)
(* with |z_n|^2 >= 4 (z_0 = 0, z_{k+1} = z_k^2 + c) within limit           *)
(* iterations, and Bounded when there is none.                             *)
C5_FirstEscapeIndex ==
  CheckerDone =>
    \A l \in Lanes :
      st.out[l] = IF LaneEscape(l) > 0 THEN Unbounded(LaneEscape(l)) ELSE Bounded

(* what a backend reports for a point with k iterates before the escaping  *)
(* one: Unbounded(k), except that the 8-lane backend compares k with the   *)
(* limit cut to its low 32 bits and reports Bounded when k is not below it *)
Reported(engine, k, limit) ==
  IF engine = "SimdF32x8" /\ k >= limit.lo32 THEN Bounded ELSE Unbounded(k)

(* C5 amended: on coordinates whose arithmetic is exact, check_bounded     *)
(* returns Unbounded(n - 1) where n is the first index with |z_n|^2 >= 4   *)
(* among z_1 .. z_limit, that is, the number of iterates before the        *)
(* escaping one, and Bounded when none of z_1 .. z_limit escapes; for a    *)
(* limit of 2^32 or more the 8-lane backend returns Bounded instead of     *)
(* Unbounded(n - 1) unless n - 1 is below the low 32 bits of the limit.    *)
C5_IteratesBeforeEscape ==
  CheckerDone =>
    \A l \in Lanes :
      st.out[l] = IF LaneEscape(l) > 0
                  THEN Reported(call.engine, LaneEscape(l) - 1, call.bounds.limit)
                  ELSE Bounded

(* C5 witness: a 4-lane call has returned Unbounded(2) for a point whose   *)
(* third iterate is the first to escape, next to a lane that is Bounded    *)
C5_Witness ==
  /\ CheckerDone /\ call.engine = "SimdF64x4"
  /\ \E l \in Lanes : LaneEscape(l) = 3 /\ st.out[l] = Unbounded(2)
  /\ \E l \in Lanes : st.out[l] = Bounded

PixelIndices == 1..(Width * Height)
RowOf(j) == (j - 1) \div Width
ColOf(j) == (j - 1) % Width
ChunkStart(j) == RowOffset(RowOf(j)) + ((ColOf(j) \div MaskLen(settings.engine)) * MaskLen(settings.engine))
ChunkLane(j) == (ColOf(j) % MaskLen(settings.engine)) + 1

(* what check_bounded returns for the batch that starts at offset c of the *)
(* grid, called on the coordinates that were handed to it for that batch   *)
ChunkBound(c) ==
  CheckBounded(settings.engine,
               [i \in 1..MaskLen(settings.engine) |-> handed[c + i][1]],
               [i \in 1..MaskLen(settings.engine) |-> handed[c + i][2]],
               settings.bounds,
               [i \in 1..MaskLen(settings.engine) |-> Bounded])

(* the pixels of the batch that starts at offset c hold the lanes of r *)
ChunkHolds(c, r) ==
  \A i \in 1..Len(r) : handed[c + i] # <<>> /\ output[c + i] = r[i]

(* C6: for a width that is a multiple of the batch width, the returned     *)
(* grid has width * height elements, every one of them was written by a    *)
(* row, and the element at row * width + col is the Bound check_bounded    *)
(* produced for pixel (col, row).                                          *)
C6_GridLayout ==
  Returned /\ Width % MaskLen(settings.engine) = 0 =>
    /\ Len(output) = Width * Height
    /\ written = PixelIndices
    /\ \A j \in PixelIndices :
         ChunkLane(j) = 1 => ChunkHolds(ChunkStart(j), ChunkBound(ChunkStart(j)))

(* C6 witness: a batched parallel call has returned two rows, received out *)
(* of order, that differ                                                   *)
C6_Witness ==
  /\ Returned /\ Parallel /\ MaskLen(settings.engine) > 1
  /\ drained = <<1, 0>>
  /\ SubSeq(output, 1, Width) # SubSeq(output, Width + 1, 2 * Width)

(* the claims on exact coordinates leave out the multiprecision backend at *)
(* a precision below that of f64                                           *)
ExactArithmetic == IsHp(settings) => settings.bounds.precision >= F64Bits

(* C7: on exact arithmetic, the coordinate handed to check_bounded for     *)
(* pixel (col, row) is (x_start + col * x_step, y_start + row * y_step)    *)
(* with x_start = x - (scale * aspect) / 2, y_start = y - scale / 2,       *)
(* x_step = (scale * aspect) / width, y_step = scale / height and aspect   *)
(* the real quotient width / height.  Both sides times 2 * height:         *)
C7_PixelCoordinates ==
  pc # "off" /\ ExactArithmetic =>
    \A j \in 1..Len(handed) :
      handed[j] # <<>> =>
        /\ 2 * Height * handed[j][1]
             = (2 * Height * settings.x) - (settings.scale * Width)
               + (2 * ColOf(j) * settings.scale)
        /\ 2 * Height * handed[j][2]
             = (2 * Height * settings.y) - (Height * settings.scale)
               + (2 * RowOf(j) * settings.scale)

(* C7 witness: a call with a viewport taller than wide (aspect 1/2) and a  *)
(* positive scale has returned                                             *)
C7_Witness ==
  /\ Returned /\ ExactArithmetic
  /\ Width = 1 /\ Height = 2 /\ settings.scale > 0
  /\ handed[2][2] > handed[1][2]

BelowLimit(b, limit) == IsBound(b) /\ (b # Bounded => LtLimit(b[2], limit))

(* C8: every Bound that check_bounded writes, and every element of a       *)
(* returned grid, is Bounded or Unbounded(n) with 0 <= n < limit.          *)
C8_BoundRange ==
  /\ CheckerDone => \A l \in 1..Len(st.out) : BelowLimit(st.out[l], call.bounds.limit)
  /\ Returned => \A j \in 1..Len(output) : BelowLimit(output[j], settings.bounds.limit)

(* C8 witness: a call has returned Unbounded(limit - 1) *)
C8_Witness ==
  /\ CheckerDone /\ call.bounds.limit.hi32 = 0
  /\ \E l \in Lanes : st.out[l] = Unbounded(call.bounds.limit.lo32 - 1)

ZeroLimit == Limit(0, 0)

(* C9: with limit = 0, check_bounded executes the loop body not once and   *)
(* returns Bounded for every input, and compute_set returns a grid in      *)
(* which every element is Bounded.                                         *)
C9_ZeroLimit ==
  /\ pc = "off" /\ call # NoCall /\ call.bounds.limit = ZeroLimit =>
       /\ st.body = 0
       /\ st.phase = "done" => \A l \in 1..Len(st.out) : st.out[l] = Bounded
  /\ Returned /\ settings.bounds.limit = ZeroLimit =>
       /\ Len(output) = Width * Height
       /\ \A j \in 1..Len(output) : output[j] = Bounded

(* C9 witness: an 8-lane call with limit 0, for a point outside the set    *)
(* and an out slice that held Unbounded(0), has returned                   *)
C9_Witness ==
  /\ CheckerDone /\ call.bounds.limit = ZeroLimit
  /\ call.engine = "SimdF32x8"
  /\ call.xs[1] = MaxCoord * Unit
  /\ call.out[1] = Unbounded(0)

AtLeast(limit, n) == limit.hi32 > 0 \/ limit.lo32 >= n

(* C10: on every backend c = 0 is Bounded for every limit >= 1, c = -1 is  *)
(* Bounded for every limit, and c = 1 is Unbounded(0) or Unbounded(1) for  *)
(* every limit >= 2.                                                       *)
C10_KnownPoints ==
  CheckerDone =>
    \A l \in Lanes :
      call.ys[l] = 0 =>
        /\ call.xs[l] = 0 /\ AtLeast(call.bounds.limit, 1) => st.out[l] = Bounded
        /\ call.xs[l] = 0 - Unit => st.out[l] = Bounded
        /\ call.xs[l] = Unit /\ AtLeast(call.bounds.limit, 2)
             => st.out[l] \in {Unbounded(0), Unbounded(1)}

(* the scalar backend that a batched backend corresponds to *)
ScalarOf(engine) == IF engine = "SimdF32x8" THEN "Single" ELSE "Double"

(* what the scalar backend writes for the coordinate of lane l alone *)
ScalarLane(l) ==
  CheckBounded(ScalarOf(call.engine), <<call.xs[l]>>, <<call.ys[l]>>, call.bounds,
               <<Bounded>>)[1]

Batched == pc = "off" /\ MaskLen(call.engine) > 1

(* C11: for a batched backend, any batch and any limit, the Bound written  *)
(* for lane i by one batched check_bounded call is the Bound that the      *)
(* corresponding scalar backend writes for coordinate i alone.             *)
C11_LanesMatchScalar ==
  CheckerDone /\ Batched => \A l \in Lanes : st.out[l] = ScalarLane(l)

(* what C11 leaves of itself below 2^32: for limits that fit 32 bits, and  *)
(* for the 4-lane backend at every limit, each lane is the scalar result   *)
LanesMatchScalarBelow ==
  CheckerDone /\ Batched /\ (call.engine = "SimdF32x8" => call.bounds.limit.hi32 = 0)
    => \A l \in Lanes : st.out[l] = ScalarLane(l)

FullPrecision == call.engine = "Precision" /\ call.bounds.precision >= F64Bits

(* the same call handed to the other one of the two backends, the          *)
(* multiprecision one at the precision of f64                              *)
Counterpart ==
  CheckBounded(IF call.engine = "Double" THEN "Precision" ELSE "Double",
               call.xs, call.ys, BoundsSettings(call.bounds.limit, F64Bits), <<Bounded>>)

(* C12: on a coordinate and limit on which the arithmetic of both is       *)
(* exact, the Double backend and the multiprecision backend at a precision *)
(* of 53 bits or more return the same Bound: the same tag and, when        *)
(* Unbounded, the same n.                                                  *)
C12_DoubleMatchesPrecision ==
  CheckerDone /\ (call.engine = "Double" \/ FullPrecision) => st.out = Counterpart

(* C12 witness: the multiprecision backend has returned Unbounded(1) for   *)
(* c = 1, whose second iterate lies on the circle |z|^2 = 4                *)
C12_Witness ==
  /\ CheckerDone /\ FullPrecision
  /\ call.xs[1] = Unit /\ call.ys[1] = 0
  /\ st.out = <<Unbounded(1)>>

Sequential == pc # "off" /\ pool = NoPool
RowWritten(r) == \A j \in 1..Len(output) : RowOf(j) = r => j \in written
RowTouched(r) == \E j \in written : RowOf(j) = r

(* C13: without a thread pool the rows are computed in increasing order   *)
(* and the Progress event of row r is sent after row r is computed and     *)
(* before row r + 1 is: the k-th Progress event is Progress(k - 1, height) *)
(* and finds row k - 1 written, and a row r + 1 is not written before the  *)
(* rows up to r are and Progress(r, height) is sent.                       *)
C13_SequentialProgress ==
  Sequential =>
    /\ Observed =>
         \A i \in 2..Len(events) :
           IsProgress(events[i]) =>
             events[i] = Progress(i - 2, Height) /\ RowWritten(i - 2)
    /\ \A r \in 1..(Height - 1) :
         RowTouched(r) =>
           /\ \A q \in 0..(r - 1) : RowWritten(q)
           /\ Observed => Len(events) >= r + 1 /\ events[r + 1] = Progress(r - 1, Height)

(* C13 witness: a sequential call with an observer has returned two rows *)
C13_Witness ==
  /\ Sequential /\ Observed /\ Returned
  /\ Height = 2 /\ events = <<Start, Progress(0, 2), Progress(1, 2), End>>

EndSent == Len(events) > 0 /\ events[Len(events)] = End

(* C14: in both modes Start is sent before any row is computed and, with   *)
(* a pool, before any row task is submitted; End is sent only when all     *)
(* height rows are written to output, with no row task queued or running   *)
(* and no result left in the channel.                                      *)
C14_StartFirstEndLast ==
  Observed =>
    /\ events = <<>> =>
         /\ written = {}
         /\ \A j \in 1..Len(handed) : handed[j] = <<>>
         /\ \A y \in DOMAIN tasks : tasks[y] = "new"
    /\ EndSent =>
         /\ Len(output) = Width * Height
         /\ written = PixelIndices
         /\ Parallel =>
              /\ chan = <<>>
              /\ Len(drained) = Height
              /\ \A y \in DOMAIN tasks : tasks[y] = "done"

(* C14 witness: End is sent by a parallel call of two rows, the second of  *)
(* which was assembled first                                               *)
C14_Witness ==
  /\ Parallel /\ Observed /\ EndSent
  /\ Height = 2 /\ drained[1] = 1

Unobserved == pc # "off" /\ message = "None"
SendPoints == {"start", "row_done", "recv_done", "end"}

(* C15: without an observer no event is sent, compute_set is not stopped   *)
(* at any of its sends and fails only where a row computation fails, and   *)
(* the grid it returns is the grid that the same settings give with an     *)
(* observer (which, by C1, is SequentialSet(settings).out).                *)
C15_NoObserver ==
  Unobserved =>
    /\ events = <<>>
    /\ pc \in SendPoints => ENABLED (SendStart \/ SeqProgress \/ DrainProgress \/ SendEnd)
    /\ pc = "panicked" => Sequential /\ SequentialSet(settings).panic
    /\ Returned => output = SequentialSet(settings).out

(* C15 witness: a parallel call without an observer has returned a grid    *)
(* that is not Bounded everywhere                                          *)
C15_Witness ==
  /\ Unobserved /\ Parallel /\ Returned
  /\ \E j \in 1..Len(output) : output[j] # Bounded

Disconnected == Observed /\ ~rx_open

(* C16: when the observer's receiving end is gone at a send of Start, of a *)
(* Progress or of End, the computation is abandoned: a call whose observer *)
(* has disconnected never returns a ComputedSet.                           *)
C16_SendFailureAborts == ~(Disconnected /\ Returned)

(* C16 witness: a parallel call has been abandoned at a Progress send,     *)
(* after a row was assembled                                               *)
C16_Witness ==
  /\ Disconnected /\ Parallel /\ pc = "panicked"
  /\ written # {} /\ Len(events) >= 1

(* C19 as stated: a disconnected progress channel is tolerated, the sends  *)
(* are fire-and-forget and compute_set is not stopped by them.             *)
C19_DisconnectTolerated == Disconnected => pc # "panicked"

(* C19 amended: a disconnected progress channel is not tolerated: the      *)
(* first send after the receiving end is dropped panics (send(..).unwrap), *)
(* nothing more is sent or written by compute_set and nothing is returned. *)
C19_SendToDroppedPanics ==
  [][Disconnected /\ pc \in SendPoints /\ pc' # pc
       => pc' = "panicked" /\ events' = events /\ output' = output]_vars

(* C19 witness: a sequential call of two rows has been abandoned after the *)
(* first row, at the send of its Progress event                            *)
C19_Witness ==
  /\ Disconnected /\ Sequential /\ pc = "panicked"
  /\ written # {} /\ written # PixelIndices

(* the settings on which a row computation panics (a batched backend and a *)
(* width that is not a multiple of the batch width)                        *)
RowsFail == pc # "off" /\ SequentialSet(settings).panic

(* C17: the engine never waits for the observer: with an observer that     *)
(* reads no event at all, compute_set goes on to return for as long as the *)
(* receiving end stays alive (and no row computation fails).               *)
C17_NeverWaitsForObserver ==
  (Observed /\ ~RowsFail) ~> (Returned \/ ~rx_open)

(* C17 witness: a call has returned with its Start, its Progress events    *)
(* and its End all unread and the receiving end alive                      *)
C17_Witness ==
  /\ Observed /\ Returned /\ rx_open /\ ~RowsFail
  /\ Height = MaxHeight /\ Len(events) = MaxHeight + 2

(* a vector backend whose batch width does not divide the row width *)
PartialChunk ==
  /\ pc # "off"
  /\ MaskLen(settings.engine) > 1
  /\ Width % MaskLen(settings.engine) # 0

(* C18 as stated: with a vector backend and a width that is not a multiple *)
(* of the batch width, compute_row hands the final partial chunk to        *)
(* check_bounded at full batch width: no row ends in a panic before that   *)
(* call, neither on the calling thread (where, without a sender, nothing   *)
(* else can panic) nor in a closure of the pool while compute_set is still *)
(* there to receive its result.                                            *)
C18_FinalChunkIssued ==
  PartialChunk =>
    /\ message = "None" => pc # "panicked"
    /\ pc # "panicked" => \A y \in DOMAIN tasks : tasks[y] # "panicked"

(* the results that the closure of row y has sent: those still in the      *)
(* channel and those that rx.recv() has taken                              *)
ResultsOf(y) ==
  Cardinality({i \in 1..Len(chan) : chan[i][1] = y})
    + Cardinality({i \in 1..Len(drained) : drained[i] = y})

Draining == pc \in {"drain", "recv_done"}
Drained == pc \in {"end", "returned"}

(* with a pool and rows that do not panic, in a call that has sent Start   *)
(* and not been ended by a failed send: the submit loop has handed the     *)
(* pool one closure for each row below its y and none for the others, a    *)
(* closure that has finished has sent one result and the others none, the  *)
(* drain loop has received n results, and after it `height` results, one   *)
(* for each row                                                            *)
OneResultPerRow ==
  Parallel /\ ~RowsFail /\ pc \notin {"start", "panicked"} =>
    /\ DOMAIN tasks = 0..(Height - 1)
    /\ pc = "submit" => \A y \in DOMAIN tasks : tasks[y] # "new" <=> y < idx
    /\ Draining \/ Drained => \A y \in DOMAIN tasks : tasks[y] # "new"
    /\ \A y \in DOMAIN tasks : ResultsOf(y) = IF tasks[y] = "done" THEN 1 ELSE 0
    /\ pc = "drain" => Len(drained) = idx
    /\ pc = "recv_done" => Len(drained) = idx + 1
    /\ Drained =>
         /\ Len(drained) = Height
         /\ chan = <<>>
         /\ \A y \in 0..(Height - 1) :
              Cardinality({i \in 1..Len(drained) : drained[i] = y}) = 1

(* C20: in parallel mode, with a pool of one thread or more and rows that  *)
(* do not panic, compute_set submits one task for each row 0..height, each *)
(* task sends one (y, out) result, the drain loop receives `height`        *)
(* results with each row index once, and with the threads scheduled fairly *)
(* compute_set returns (unless the observer has dropped its receiver,      *)
(* which ends the call at its next send).                                  *)
C20_ParallelCompletes ==
  /\ []OneResultPerRow
  /\ (Parallel /\ ~RowsFail) ~> (Returned \/ Disconnected)

(* a call on a pool of one thread has returned with every row received *)
C20_Witness ==
  /\ Parallel /\ ~RowsFail /\ Returned
  /\ pool.threads = 1
  /\ Height = MaxHeight
  /\ Len(drained) = MaxHeight

(* C21: with a pool, the output grid is written by the thread that runs    *)
(* compute_set only: a step that changes output, or the set of indices a   *)
(* row has been stored to, is a step of compute_set (it moves pc) and not  *)
(* of a closure; and the row buffer of a closure that is still running is  *)
(* not in the channel and has not been received, so that a buffer is never *)
(* written by its closure and read by the drain loop at once.              *)
C21_GridWrittenByOneThread ==
  /\ [](Parallel => \A y \in DOMAIN tasks :
                      tasks[y] \in {"new", "queued", "running"} => ResultsOf(y) = 0)
  /\ [][Parallel /\ (output' # output \/ written' # written)
          => pc' # pc /\ \A y \in DOMAIN tasks : tasks'[y] = tasks[y]]_vars

(* a closure is running while a row of another closure is already stored *)
C21_Witness == Parallel /\ written # {} /\ Running # {}

(* the row width is a multiple of the backend's batch width *)
WholeChunks == pc # "off" /\ Width % MaskLen(settings.engine) = 0

(* the result r of compute_row on a buffer of `width` elements: no index   *)
(* outside the buffer was taken, the calls are width/k in number and start *)
(* at the columns 0, k, 2k, .. in this order, each handing k coordinates   *)
(* and writing k elements, so that every column lies in one chunk          *)
RowInChunks(r, k, width) ==
  /\ ~r.panic
  /\ Len(r.calls) = width \div k
  /\ \A i \in 1..Len(r.calls) : r.calls[i] = (i - 1) * k
  /\ Len(r.coords) = k * Len(r.calls)
  /\ Len(r.out) = width
  /\ \A col \in 0..(width - 1) :
       Cardinality({i \in 1..Len(r.calls) :
                      r.calls[i] <= col /\ col < r.calls[i] + k}) = 1

(* the row y that the sequential loop has just stored is the result r of   *)
(* compute_row, and r is made of whole chunks                              *)
RowStored(r, y) ==
  /\ RowInChunks(r, MaskLen(settings.engine), Width)
  /\ SubSeq(output, RowOffset(y) + 1, RowOffset(y + 1)) = r.out
  /\ SubSeq(handed, RowOffset(y) + 1, RowOffset(y + 1)) = r.coords

RowOfSettings(y) ==
  ComputeRow(settings, ViewportOf(settings), y, [j \in 1..Width |-> Bounded])

(* C22: for a backend of batch width k and a width that is a multiple of   *)
(* k, compute_row on a row issues width/k check_bounded calls, left to     *)
(* right, over the contiguous disjoint chunks [x, x + k), so that every    *)
(* column is written once and nothing outside the row buffer is accessed   *)
(* (stated at the entry of the call for every row, and for the row that    *)
(* the sequential loop has just computed, which is stored as computed).    *)
C22_RowInChunks ==
  WholeChunks =>
    /\ pc = "start" =>
         \A y \in 0..(settings.height - 1) :
           RowInChunks(RowOfSettings(y), MaskLen(settings.engine), Width)
    /\ pc = "row_done" => RowStored(RowOfSettings(idx), idx)

(* a row of two chunks of a vector backend has been computed and stored *)
C22_Witness ==
  /\ WholeChunks
  /\ pc = "row_done"
  /\ MaskLen(settings.engine) > 1
  /\ Width = 2 * MaskLen(settings.engine)
  /\ written # {}

(* a call of a vector backend at its loop head *)
SimdLooping == pc = "off" /\ MaskLen(call.engine) > 1 /\ st.phase = "loop"

(* lane l has had |z|^2 >= 4 in one of the iterations done so far *)
HasEscaped(l) == LaneEscape(l) > 0 /\ LaneEscape(l) <= st.body

RECURSIVE FullLoop(_, _, _, _, _)
FullSelect(p, c, z, iter, n) ==
  FullLoop(p, c, z, Select([l \in 1..Len(z) |-> FloatInside(p, z[l])], iter), n)

FullLoop(p, c, z, iter, n) ==
  IF n = 0 THEN iter
  ELSE FullSelect(p, c, [l \in 1..Len(z) |-> FloatStep(p, z[l], c[l])], iter, n - 1)

LanePrecision(engine) == IF engine = "SimdF32x8" THEN F32Bits ELSE F64Bits

(* what the backend writes after `limit` iterations without the break *)
FullRun(engine, entered, bounds) ==
  CheckerNext(engine,
              [entered EXCEPT !.phase = "write",
                              !.iter = FullLoop(LanePrecision(engine), entered.c,
                                                entered.z, entered.iter,
                                                bounds.limit.lo32)],
              bounds).out

(* a call of a vector backend with a limit below 2^32 has returned *)
SimdDone == CheckerDone /\ MaskLen(call.engine) > 1 /\ call.bounds.limit.hi32 = 0

C25_LaneBelowLimit ==
  CheckerDone /\ MaskLen(call.engine) > 1 =>
    \A l \in Lanes :
      st.out[l] = IF LtLimit(st.iter[l], call.bounds.limit)
                  THEN Unbounded(st.iter[l])
                  ELSE Bounded

(* the settings with another bounds.precision, all else the same *)
AtPrecision(s, p) == [s EXCEPT !.bounds.precision = p]

(* the events of a call that has returned: Start, a Progress for each of   *)
(* the counts 0..height in order, End                                      *)
EventsOf(height) ==
  <<Start>> \o [i \in 1..height |-> Progress(i - 1, height)] \o <<End>>

FixedWidth == pc # "off" /\ settings.engine # "Precision"

(* the viewport and the grid of the settings s are those of t *)
SameGrid(s, t, vp, set) == ViewportOf(t) = vp /\ SequentialSet(t) = set

(* C26: for the Single, Double, SimdF32x8 and SimdF64x4 backends the       *)
(* precision setting changes nothing: at the entry of a call the viewport  *)
(* and the grid of the settings are those of the same settings with        *)
(* bounds.precision = 1, the least there is, and a call that returns has   *)
(* returned that grid and has sent the events that depend on the height    *)
(* alone.                                                                  *)
C26_PrecisionIgnored ==
  FixedWidth =>
    /\ pc = "start" =>
         SameGrid(settings, AtPrecision(settings, 1), ViewportOf(settings),
                  SequentialSet(settings))
    /\ Returned =>
         /\ output = SequentialSet(AtPrecision(settings, 1)).out
         /\ Observed => events = EventsOf(Height)

(* a scalar call with an observer has returned a grid that holds a point   *)
(* escaping after two iterations next to a point that stays bounded        *)
C26_Witness ==
  /\ FixedWidth /\ Returned /\ Observed
  /\ settings.engine = "Double"
  /\ \E j \in 1..Len(output) : output[j] = Unbounded(2)
  /\ \E j \in 1..Len(output) : output[j] = Bounded

(* C27 as stated: the Single backend runs the iteration in 32-bit floats   *)
(* (significand of F32Bits bits), the Double backend in 64-bit floats.     *)
C27_SingleIsF32 ==
  pc = "off" /\ call.engine \in {"Single", "Double"} =>
    PrimitiveBits(call.engine) = IF call.engine = "Single" THEN F32Bits ELSE F64Bits

InApp == state.at # "off"

(* the computations launched whose result has not been received *)
Unreceived == {n \in DOMAIN threads : threads[n] # "received"}

(* a step in which App::recompute is called *)
Recomputes == Len(threads') > Len(threads)

(* C28: in the interactive caller, after any sequence of UI events, thread *)
(* steps and result arrivals, at most one computation is in flight,        *)
(* compute_busy is true exactly while a launched computation's result has  *)
(* not been received, and App::recompute is not called while compute_busy  *)
(* is true.                                                                *)
C28_OneComputationInFlight ==
  /\ [](InApp => /\ Cardinality(Unreceived) <= 1
                 /\ state.compute_busy <=> Unreceived # {})
  /\ [][InApp /\ Recomputes => ~state.compute_busy]_vars

(* a second computation is in flight after the result of the first one has *)
(* been received                                                           *)
C28_Witness ==
  /\ InApp
  /\ state.compute_busy
  /\ Len(threads) = 2
  /\ threads[1] = "received"
  /\ state.computed_set = 1

(* C29 as stated: when a launched computation has failed (its thread has   *)
(* ended without sending a ComputedSet), the user can still trigger a new  *)
(* computation: at the next call of the event closure some UI event leads  *)
(* to a call of App::recompute.                                            *)
C29_RetryAfterFailure ==
  /\ InApp
  /\ state.at = "event"
  /\ \E n \in DOMAIN threads : threads[n] = "failed"
  /\ Len(threads) < MaxLaunches
  => ENABLED (\E e \in UiEvents, capture \in BOOLEAN : AppEvent(e, capture) /\ Recomputes)

(* what the code does instead: once a thread has ended without sending,    *)
(* compute_busy stays true, and no step calls App::recompute again         *)
NoRecomputeAfterFailure ==
  [][InApp /\ (\E n \in DOMAIN threads : threads[n] = "failed")
       => state.compute_busy /\ ~Recomputes]_vars

(* C30: whenever a result is in the result channel, and so whenever one is *)
(* received, state.compute_start holds a start instant: the unwrap at the  *)
(* receipt never panics.                                                   *)
C30_StartHeldAtReceipt ==
  InApp =>
    /\ ~state.panicked
    /\ results # <<>> => state.compute_start = "Some"

(* the closure is at rx.try_recv() with the result of the second           *)
(* computation in the channel                                              *)
C30_Witness ==
  /\ InApp
  /\ state.at = "recv"
  /\ results = <<2>>
  /\ state.compute_start = "Some"

(* the offsets of a row have been computed, or computing them has panicked *)
RowsDone == rows.at \in {"sliced", "placed", "panicked"}

(* the offsets computed for row y are the products y * width and           *)
(* (y + 1) * width themselves                                              *)
OffsetsExact ==
  /\ rows.at # "panicked"
  /\ AsUsize(rows.start) = WideMul(rows.y, rows.width)
  /\ rows.at = "sliced" => AsUsize(rows.end) = WideMul(SuccU32(rows.y), rows.width)

(* C31 as stated: for every positive 32-bit width and height and every row *)
(* y below the height, the row offsets the engine computes in u32, y*width *)
(* and (y+1)*width, are the mathematical products, without wrap-around, so *)
(* that the row lies at offset y*width of the grid.                        *)
C31_RowOffsetsExact == RowsDone => OffsetsExact

(* the grid has fewer than 2^32 elements *)
GridFits == rows.at # "off" /\ WideMul(rows.width, rows.height).high = ZeroU32

(* what the code does: the offsets are the products for the grids of fewer *)
(* than 2^32 elements; for the others a row panics or lies elsewhere       *)
RowOffsetsExactWhenGridFits == RowsDone /\ GridFits => OffsetsExact

(* a build without overflow checks has placed a row of the parallel arm at *)
(* an offset that is not y * width                                         *)
RowMisplaced ==
  rows.at = "placed" /\ AsUsize(rows.start) # WideMul(rows.y, rows.width)

(* the product in halves is the product of the integers, where that one is *)
(* below 2^31                                                              *)
WideMulOnSmall ==
  /\ rows.at = "entry"
  /\ rows.width.hi16 = 0 /\ rows.height.hi16 = 0
  /\ rows.width.lo16 <= HalfWord \div 2
  => /\ WideMul(rows.width, rows.height).high = ZeroU32
     /\ WideMul(rows.width, rows.height).low.hi16 * HalfWord
          + WideMul(rows.width, rows.height).low.lo16
        = rows.width.lo16 * rows.height.lo16

=============================================================================
